---- MODULE Spec2Model ----
(***************************************************************************)
(* TableTap: the customer cart (add_order_item, view_cart) and the owner   *)
(* order console (view_order) of tabletapapp/views.py, over the Order and  *)
(* Order_Item tables of tabletapapp/models.py and Django's per-browser     *)
(* session store.                                                          *)
(*                                                                         *)
(* Spec  runs one request at a time (each action is one whole view call).  *)
(* SpecC runs two requests at once; a step is one database or session-     *)
(*       store access of a view, Django's autocommit default.              *)
(* Money is counted in cents.  Created_At / Updated_At are not modelled:   *)
(* rows are created in id order and no view reads either column.           *)
(***************************************************************************)
EXTENDS Integers, Sequences, FiniteSets, TLC

(* ------------------------------ bounds -------------------------------- *)
\* Order rows that may be created.
MaxOrders == 2
\* Add-item POSTs that pass form validation, over the whole run.
MaxAdds == 2

(* ------------------------- catalog (read-only) ------------------------ *)
\* Restaurant rows (ids).
Restaurant == {1, 2}
\* Owner.Restaurants through Restaurant_Owner: owner id -> restaurants owned.
Owner == (1 :> {1}) @@ (2 :> {2})
\* Menu rows: id -> Restaurant_ID.
Menu == (1 :> 1) @@ (2 :> 2)
\* Menu_Item rows: id -> Price, in cents.
Menu_Item == (1 :> 500) @@ (2 :> 350)
\* Table rows: id -> Restaurant_ID.
Table == (1 :> 1) @@ (2 :> 2)

\* Browser sessions (django session keys).  Session 1 is the customer under
\* study and may send any URL and any body; session 2 is a second diner, at
\* table 2, who opens the add-item form of menu 2 and may view or submit the
\* cart.
Sessions == {1, 2}
Methods == {"GET", "POST"}

(* ------------------------------- state -------------------------------- *)
VARIABLES
    Order,       \* the Order table: row id = index
    Order_Item,  \* the Order_Item table: a sequence of rows
    session,     \* session store: session -> 'order_id' (0: key absent)
    last,        \* the request that finished last and how it ended
    creator,     \* history: order id -> the session whose request created it
    requested,   \* history: <<order, item>> added -> sum of quantities posted
    adds,        \* history: add-item POSTs that passed validation so far
    pc,          \* SpecC: each request slot's position in its view
    loc          \* SpecC: each request slot's arguments and local variables

vars == <<Order, Order_Item, session, last, creator, requested, adds, pc, loc>>
db == <<Order, Order_Item, session>>
hist == <<creator, requested, adds>>
procs == <<pc, loc>>

(* ------------------------------ helpers ------------------------------- *)
\* models.py Order: the column defaults of a freshly created row.
NewOrder(table_id, restaurant_id) ==
    [Table_ID |-> table_id, Restaurant_ID |-> restaurant_id,
     Completed_Status |-> FALSE, Customer_Submitted |-> FALSE,
     Total_Price |-> 0]

\* Order_Item.objects.filter(Order_ID=o, Item_ID=i): the matching row indexes.
ItemRows(rows, o, i) ==
    {k \in 1..Len(rows) : rows[k].Order_ID = o /\ rows[k].Item_ID = i}

\* Order_Item.objects.filter(Order_ID=o): the matching row indexes.
OrderRows(rows, o) ==
    {k \in 1..Len(rows) : rows[k].Order_ID = o}

\* OrderItemForm(request.POST).is_valid(): Quantity is a required IntegerField
\* with no minimum, so any text that parses as an integer passes.
is_valid(post) == post.isInt

\* What a browser may post as Quantity: an integer of either sign, or text
\* that is no integer (val is then unused).
NoPost == [isInt |-> FALSE, val |-> 0]
Quantity(n) == [isInt |-> TRUE, val |-> n]

\* A merge that stores the posted quantity instead of adding it.
MergedQuantityOverwrite(existing, posted) == posted

\* views.py 457: existed_item.Quantity += order_item.Quantity
MergedQuantity(existing, posted) == existing + posted

\* views.py 459: order.Total_Price += existed_item.Quantity * item.Price,
\* evaluated after line 457 has already raised existed_item.Quantity.
MergeIncrement(existing, posted, price) == MergedQuantity(existing, posted) * price

\* views.py 464: order.Total_Price += order_item.Quantity * item.Price
CreateIncrement(posted, price) == posted * price

\* Request slots: the requests the server may be handling at once.
Procs == {1, 2}

\* A slot's local variables before its view has assigned any.
NoRow == NewOrder(0, 0)
Blank ==
    [op |-> "none", method |-> "GET", who |-> 0, url |-> <<0, 0, 0>>,
     post |-> NoPost, order_id |-> 0, order |-> NoRow, pre |-> "NONE",
     created |-> FALSE, existed |-> 0, quantity |-> 0, orders |-> {}]

Idle == [p \in Procs |-> "idle"]
NoLoc == [p \in Procs |-> Blank]
NoRequest ==
    [op |-> "none", method |-> "GET", who |-> 0, order |-> 0,
     pre |-> "NONE", foreign |-> FALSE, outcome |-> "none"]

Init ==
    /\ Order = <<>>
    /\ Order_Item = <<>>
    /\ session = [s \in Sessions |-> 0]
    /\ last = NoRequest
    /\ creator = <<>>
    /\ requested = <<>>
    /\ adds = 0
    /\ pc = Idle
    /\ loc = NoLoc

(* ------------------- one request at a time (Spec) --------------------- *)
\* The lifecycle state an Order row's two flags stand for.
StateOf(row) ==
    IF row.Completed_Status THEN "COMPLETED"
    ELSE IF row.Customer_Submitted THEN "SUBMITTED"
    ELSE "OPEN"

\* The state of order `o` in `rows`; "NONE" when the request resolved no order.
PreState(rows, o) == IF o \in 1..Len(rows) THEN StateOf(rows[o]) ELSE "NONE"

\* The record left in `last` when a request ends: the request and who sent it
\* (a session, or for view_order an owner), the order it resolved and that
\* order's state when the request arrived, whether the URL named another
\* table or restaurant than that order's, and the response.
Finish(op, method, who, order, pre, foreign, outcome) ==
    [op |-> op, method |-> method, who |-> who, order |-> order,
     pre |-> pre, foreign |-> foreign, outcome |-> outcome]

\* views.py 455-464: the Order_Item table after the try/except: the existing
\* row of (order, item) with its Quantity raised, or else a new row.
SaveLine(rows, o, i, posted) ==
    IF ItemRows(rows, o, i) # {}
    THEN LET k == CHOOSE k \in ItemRows(rows, o, i) : TRUE
         IN  [rows EXCEPT ![k].Quantity = MergedQuantity(@, posted)]
    ELSE Append(rows, [Order_ID |-> o, Item_ID |-> i, Quantity |-> posted])

\* views.py 459 / 464: what the request adds to order.Total_Price.
Increment(rows, o, i, posted) ==
    IF ItemRows(rows, o, i) # {}
    THEN LET k == CHOOSE k \in ItemRows(rows, o, i) : TRUE
         IN  MergeIncrement(rows[k].Quantity, posted, Menu_Item[i])
    ELSE CreateIncrement(posted, Menu_Item[i])

\* A binder that never finds the session's order.
HasOrderNever(order_id) == FALSE

\* views.py 445: `if order_id:` -- the session holds an order id.
HasOrder(order_id) == order_id # 0

\* views.py 446-450: the Order table once the request has its order: the
\* session's order as it is, or a new row for the URL's table and the
\* restaurant of the URL's menu.
ResolveOrder(rows, order_id, table_id, menu_id) ==
    IF HasOrder(order_id) THEN rows
    ELSE Append(rows, NewOrder(table_id, Menu[menu_id]))

\* History: the quantities posted so far for <<order, item>>.
Posted(req, o, i, n) ==
    IF <<o, i>> \in DOMAIN req
    THEN [req EXCEPT ![<<o, i>>] = @ + n]
    ELSE req @@ (<<o, i>> :> n)

\* Whether a URL names another table, or a menu of another restaurant, than
\* those of the order it is applied to.
Foreign(row, table_id, menu_id) ==
    \/ row.Table_ID # table_id
    \/ menu_id \notin DOMAIN Menu
    \/ row.Restaurant_ID # Menu[menu_id]

\* Lookups that never read the Table row.
LookupFailsNoTable(bound, table_id, menu_id, item_id) ==
    \/ item_id \notin DOMAIN Menu_Item
    \/ menu_id \notin DOMAIN Menu

\* views.py 442, 444, 448: one of the view's .get(id=...) raises DoesNotExist.
\* The Table row is looked up only when the session holds no order.
LookupFails(bound, table_id, menu_id, item_id) ==
    \/ item_id \notin DOMAIN Menu_Item                    \* 442
    \/ menu_id \notin DOMAIN Menu                         \* 444
    \/ (~bound /\ table_id \notin DOMAIN Table)           \* 448

\* views.py 436-476, add_order_item as one step.
add_order_item(s, table_id, menu_id, item_id, method, post) ==
    LET order_id == session[s]
        bound == HasOrder(order_id)
        pre == PreState(Order, order_id)
        foreign == bound /\ Foreign(Order[order_id], table_id, menu_id)
    IN
    /\ UNCHANGED procs
    /\ IF LookupFails(bound, table_id, menu_id, item_id)
       THEN /\ last' = Finish("add_order_item", method, s, 0, pre, foreign,
                              "DoesNotExist")
            /\ UNCHANGED <<db, hist>>
       ELSE
       LET oid == IF bound THEN order_id ELSE Len(Order) + 1
           Order1 == ResolveOrder(Order, order_id, table_id, menu_id)
       IN
       /\ ~bound => Len(Order) < MaxOrders
       /\ session' = [session EXCEPT ![s] = oid]           \* 450
       /\ creator' = IF bound THEN creator ELSE Append(creator, s)
       /\ IF method = "POST" /\ is_valid(post)             \* 451-453
          THEN /\ adds < MaxAdds
               /\ adds' = adds + 1
               /\ Order_Item' = SaveLine(Order_Item, oid, item_id, post.val)
               /\ Order' = [Order1 EXCEPT ![oid].Total_Price =    \* 465
                             @ + Increment(Order_Item, oid, item_id, post.val)]
               /\ requested' = Posted(requested, oid, item_id, post.val)
               /\ last' = Finish("add_order_item", method, s, oid, pre, foreign,
                                 "redirect")
          ELSE /\ Order' = Order1
               /\ UNCHANGED <<Order_Item, requested, adds>>
               /\ last' = Finish("add_order_item", method, s, oid, pre, foreign,
                                 "render")

\* views.py 499-501: the submitted order row that view_cart saves.
Submitted(row) == [row EXCEPT !.Customer_Submitted = TRUE]

\* views.py 503-516: how a GET of view_cart ends.
CartPage(bound, restaurant_id, menu_id) ==
    IF menu_id = 0 /\ restaurant_id \notin Restaurant
    THEN "DoesNotExist"                                    \* 504
    ELSE IF menu_id = 0 /\ {m \in DOMAIN Menu : Menu[m] = restaurant_id} = {}
    THEN "IndexError"                                      \* 506
    ELSE IF ~bound THEN "UnboundLocalError"                \* 514
    ELSE "render"

\* views.py 479-516, view_cart as one step.  `order` is assigned only inside
\* `if order_id:` (489), and read at 500 (POST) and 514 (GET).
view_cart(s, table_id, restaurant_id, menu_id, method) ==
    LET order_id == session[s]
        bound == HasOrder(order_id)
        pre == PreState(Order, order_id)
    IN
    /\ UNCHANGED <<Order_Item, session, hist, procs>>
    /\ IF method = "POST"
       THEN IF bound
            THEN /\ Order' = [Order EXCEPT ![order_id] = Submitted(@)]
                 /\ last' = Finish("view_cart", method, s, order_id, pre, FALSE,
                                   "redirect")
            ELSE /\ Order' = Order
                 /\ last' = Finish("view_cart", method, s, 0, pre, FALSE,
                                   "UnboundLocalError")
       ELSE /\ Order' = Order
            /\ last' = Finish("view_cart", method, s, order_id, pre, FALSE,
                              CartPage(bound, restaurant_id, menu_id))

\* A console that lists the pending orders of every restaurant.
PendingOrdersAnyRestaurant(rows, owner) ==
    {o \in 1..Len(rows) : /\ rows[o].Customer_Submitted
                          /\ ~rows[o].Completed_Status}

\* views.py 527-529: the ids of the orders the owner's console lists.
PendingOrders(rows, owner) ==
    {o \in 1..Len(rows) : /\ rows[o].Restaurant_ID \in Owner[owner]
                          /\ rows[o].Customer_Submitted
                          /\ ~rows[o].Completed_Status}

\* views.py 545-546: the completed order row that view_order saves.
Completed(row) == [row EXCEPT !.Completed_Status = TRUE]

\* views.py 519-552, view_order as one step.  The queryset has no ordering,
\* so orders[0] (534) is whichever pending row the database returns first.
view_order(owner, order_id, method) ==
    LET orders == PendingOrders(Order, owner)
    IN
    /\ UNCHANGED <<Order_Item, session, hist, procs>>
    /\ IF orders = {}
       THEN /\ Order' = Order                               \* order = []
            /\ last' = Finish("view_order", method, owner, 0, "NONE", FALSE,
                    IF method = "POST" THEN "AttributeError" ELSE "render")
       ELSE \E first \in IF order_id = 0 THEN orders ELSE {order_id} :  \* 533
            LET pre == PreState(Order, first)
            IN
            IF first \notin 1..Len(Order)                         \* 535
            THEN /\ Order' = Order
                 /\ last' = Finish("view_order", method, owner, 0, pre, FALSE,
                                   "DoesNotExist")
            ELSE IF method = "POST"                               \* 544-547
            THEN /\ Order' = [Order EXCEPT ![first] = Completed(@)]
                 /\ last' = Finish("view_order", method, owner, first, pre, FALSE,
                                   "redirect")
            ELSE /\ Order' = Order
                 /\ last' = Finish("view_order", method, owner, first, pre, FALSE,
                                   "render")

\* The URLs <<table_id, menu_id, item_id>> session 1 requests: every URL of
\* existing ids and, for each position, one with an id that names no row.
Urls ==
    ((DOMAIN Table) \X (DOMAIN Menu) \X (DOMAIN Menu_Item))
        \cup {<<3, 1, 1>>, <<1, 3, 1>>, <<1, 1, 3>>}

\* The bodies session 1 sends: a GET carries none; a POST carries a Quantity
\* that is no integer, zero, or one.
Bodies(method) ==
    IF method = "GET" THEN {NoPost} ELSE {NoPost, Quantity(0), Quantity(1)}

AddItem ==
    \/ \E method \in Methods :
         \E url \in Urls, post \in Bodies(method) :
            add_order_item(1, url[1], url[2], url[3], method, post)
    \/ add_order_item(2, 2, 2, 1, "GET", NoPost)

\* table_id only names the page view_cart redirects to; restaurant_id and
\* menu_id are read by a GET alone (503-507).
ViewCart ==
    \E s \in Sessions :
        \/ view_cart(s, 1, 1, 1, "POST")
        \/ \E r \in {1, 3}, m \in {0, 1} : view_cart(s, 1, r, m, "GET")

ViewOrder ==
    \E owner \in DOMAIN Owner, o \in 0..(MaxOrders + 1), method \in Methods :
        view_order(owner, o, method)

Next == AddItem \/ ViewCart \/ ViewOrder

Spec == Init /\ [][Next]_vars

(* ------------------ two requests at a time (SpecC) -------------------- *)
\* Each step below is one access of a view to the session store or to a
\* table; between two steps of a request the other request may take steps.
\* Model.save() writes every column of the row from the view's own copy.

\* The response that ends slot p's request.
Respond(p, order, outcome) ==
    /\ last' = Finish(loc[p].op, loc[p].method, loc[p].who, order,
                      loc[p].pre, FALSE, outcome)
    /\ pc' = [pc EXCEPT ![p] = "idle"]
    /\ loc' = [loc EXCEPT ![p] = Blank]

\* Requests in flight that are about to create an Order row (445-449).
Creating ==
    {q \in Procs : pc[q] = "add_resolve" /\ ~HasOrder(loc[q].order_id)}

\* views.py 442-444: the item and menu lookups and session.get('order_id').
StartAdd(p, s, url, method, post) ==
    /\ pc[p] = "idle"
    /\ ~HasOrder(session[s]) => Len(Order) + Cardinality(Creating) < MaxOrders
    /\ (method = "POST" /\ is_valid(post)) => adds < MaxAdds
    /\ adds' = IF method = "POST" /\ is_valid(post) THEN adds + 1 ELSE adds
    /\ UNCHANGED <<db, creator, requested>>
    /\ IF url[3] \notin DOMAIN Menu_Item \/ url[2] \notin DOMAIN Menu
       THEN /\ last' = Finish("add_order_item", method, s, 0, "NONE", FALSE,
                              "DoesNotExist")
            /\ UNCHANGED procs
       ELSE /\ pc' = [pc EXCEPT ![p] = "add_resolve"]
            /\ loc' = [loc EXCEPT ![p] =
                   [Blank EXCEPT !.op = "add_order_item", !.method = method,
                                 !.who = s, !.url = url, !.post = post,
                                 !.order_id = session[s]]]
            /\ UNCHANGED last

\* views.py 445-450: read the session's order, or create one.  The new id is
\* put in request.session, which is stored when the response is made.
AddResolve(p) ==
    LET l == loc[p]
        next == IF l.method = "POST" /\ is_valid(l.post)
                THEN "add_get" ELSE "add_respond"
    IN
    /\ pc[p] = "add_resolve"
    /\ UNCHANGED <<Order_Item, session, requested, adds>>
    /\ IF HasOrder(l.order_id)
       THEN /\ loc' = [loc EXCEPT ![p].order = Order[l.order_id],
                                  ![p].pre = StateOf(Order[l.order_id])]
            /\ pc' = [pc EXCEPT ![p] = next]
            /\ UNCHANGED <<Order, creator, last>>
       ELSE IF l.url[1] \notin DOMAIN Table
       THEN /\ Respond(p, 0, "DoesNotExist")
            /\ UNCHANGED <<Order, creator>>
       ELSE /\ Order' = ResolveOrder(Order, l.order_id, l.url[1], l.url[2])
            /\ creator' = Append(creator, l.who)
            /\ loc' = [loc EXCEPT ![p].order_id = Len(Order) + 1,
                                  ![p].order = NewOrder(l.url[1], Menu[l.url[2]]),
                                  ![p].created = TRUE]
            /\ pc' = [pc EXCEPT ![p] = next]
            /\ UNCHANGED last

\* views.py 456: Order_Item.objects.get(Order_ID=order, Item_ID=item).
AddGet(p) ==
    LET l == loc[p]
        found == ItemRows(Order_Item, l.order_id, l.url[3])
    IN
    /\ pc[p] = "add_get"
    /\ pc' = [pc EXCEPT ![p] = "add_line"]
    /\ loc' = IF found = {} THEN loc
              ELSE LET k == CHOOSE k \in found : TRUE
                   IN  [loc EXCEPT ![p].existed = k,
                                   ![p].quantity = Order_Item[k].Quantity]
    /\ UNCHANGED <<db, last, hist>>

\* views.py 457-459 / 461-464: save the line read at 456 with its Quantity
\* raised, or insert a new one; unique_together (models.py 181-182) makes the
\* insert fail when a row of the pair has appeared since.
AddLine(p) ==
    LET l == loc[p]
        o == l.order_id
        i == l.url[3]
    IN
    /\ pc[p] = "add_line"
    /\ UNCHANGED <<Order, session, creator, adds>>
    /\ IF l.existed # 0
       THEN /\ Order_Item' = [Order_Item EXCEPT ![l.existed].Quantity =
                                  MergedQuantity(l.quantity, l.post.val)]
            /\ loc' = [loc EXCEPT ![p].order.Total_Price =
                          @ + MergeIncrement(l.quantity, l.post.val, Menu_Item[i])]
            /\ requested' = Posted(requested, o, i, l.post.val)
            /\ pc' = [pc EXCEPT ![p] = "add_save"]
            /\ UNCHANGED last
       ELSE IF ItemRows(Order_Item, o, i) # {}
       THEN /\ Respond(p, o, "IntegrityError")
            /\ UNCHANGED <<Order_Item, requested>>
       ELSE /\ Order_Item' = Append(Order_Item,
                [Order_ID |-> o, Item_ID |-> i, Quantity |-> l.post.val])
            /\ loc' = [loc EXCEPT ![p].order.Total_Price =
                          @ + CreateIncrement(l.post.val, Menu_Item[i])]
            /\ requested' = Posted(requested, o, i, l.post.val)
            /\ pc' = [pc EXCEPT ![p] = "add_save"]
            /\ UNCHANGED last

\* views.py 465: order.save().
AddSave(p) ==
    /\ pc[p] = "add_save"
    /\ Order' = [Order EXCEPT ![loc[p].order_id] = loc[p].order]
    /\ pc' = [pc EXCEPT ![p] = "add_respond"]
    /\ UNCHANGED <<Order_Item, session, last, hist, loc>>

\* views.py 466 / 476: the response; a modified session is stored with it.
AddRespond(p) ==
    LET l == loc[p]
    IN
    /\ pc[p] = "add_respond"
    /\ session' = IF l.created THEN [session EXCEPT ![l.who] = l.order_id]
                  ELSE session
    /\ Respond(p, l.order_id,
               IF l.method = "POST" /\ is_valid(l.post)
               THEN "redirect" ELSE "render")
    /\ UNCHANGED <<Order, Order_Item, hist>>

\* views.py 485: session.get('order_id').
StartCart(p, s, method) ==
    /\ pc[p] = "idle"
    /\ pc' = [pc EXCEPT ![p] = "cart_load"]
    /\ loc' = [loc EXCEPT ![p] =
           [Blank EXCEPT !.op = "view_cart", !.method = method, !.who = s,
                         !.url = <<1, 1, 1>>, !.order_id = session[s]]]
    /\ UNCHANGED <<db, last, hist>>

\* views.py 488-498: read the order and its lines.
CartLoad(p) ==
    LET l == loc[p]
    IN
    /\ pc[p] = "cart_load"
    /\ pc' = [pc EXCEPT ![p] = "cart_act"]
    /\ loc' = IF HasOrder(l.order_id)
              THEN [loc EXCEPT ![p].order = Order[l.order_id],
                               ![p].pre = StateOf(Order[l.order_id])]
              ELSE loc
    /\ UNCHANGED <<db, last, hist>>

\* views.py 499-516: save the order as submitted (POST), or render the cart.
CartAct(p) ==
    LET l == loc[p]
        bound == HasOrder(l.order_id)
    IN
    /\ pc[p] = "cart_act"
    /\ UNCHANGED <<Order_Item, session, hist>>
    /\ IF l.method = "POST" /\ bound
       THEN /\ Order' = [Order EXCEPT ![l.order_id] = Submitted(l.order)]
            /\ Respond(p, l.order_id, "redirect")
       ELSE /\ Order' = Order
            /\ Respond(p, l.order_id,
                       IF l.method = "POST" THEN "UnboundLocalError"
                       ELSE CartPage(bound, l.url[2], l.url[3]))

\* views.py 527-532: the owner's pending orders, read by `if orders:`.
StartOrder(p, owner, order_id, method) ==
    /\ pc[p] = "idle"
    /\ pc' = [pc EXCEPT ![p] = "order_load"]
    /\ loc' = [loc EXCEPT ![p] =
           [Blank EXCEPT !.op = "view_order", !.method = method,
                         !.who = owner, !.order_id = order_id,
                         !.orders = PendingOrders(Order, owner)]]
    /\ UNCHANGED <<db, last, hist>>

\* views.py 533-543: Order.objects.get(id=order_id) and its lines.
OrderLoad(p) ==
    LET l == loc[p]
    IN
    /\ pc[p] = "order_load"
    /\ UNCHANGED <<db, hist>>
    /\ IF l.orders = {}
       THEN /\ pc' = [pc EXCEPT ![p] = "order_act"]
            /\ UNCHANGED <<loc, last>>
       ELSE \E first \in IF l.order_id = 0 THEN l.orders ELSE {l.order_id} :
            IF first \notin 1..Len(Order)
            THEN Respond(p, 0, "DoesNotExist")
            ELSE /\ pc' = [pc EXCEPT ![p] = "order_act"]
                 /\ loc' = [loc EXCEPT ![p].order_id = first,
                                       ![p].order = Order[first],
                                       ![p].pre = StateOf(Order[first])]
                 /\ UNCHANGED last

\* views.py 544-552: save the order as completed (POST), or render the list.
OrderAct(p) ==
    LET l == loc[p]
    IN
    /\ pc[p] = "order_act"
    /\ UNCHANGED <<Order_Item, session, hist>>
    /\ IF l.method = "POST" /\ l.orders # {}
       THEN /\ Order' = [Order EXCEPT ![l.order_id] = Completed(l.order)]
            /\ Respond(p, l.order_id, "redirect")
       ELSE /\ Order' = Order
            /\ Respond(p, IF l.orders = {} THEN 0 ELSE l.order_id,
                       IF l.method = "POST" THEN "AttributeError"
                       ELSE "render")

\* The requests that run side by side: session 1 at table 1 opening the
\* add-item form of item 1, posting one of item 1 or submitting its cart, and
\* owner 1 completing an order.
Start(p) ==
    \/ StartAdd(p, 1, <<1, 1, 1>>, "POST", Quantity(1))
    \/ StartAdd(p, 1, <<1, 1, 1>>, "GET", NoPost)
    \/ StartCart(p, 1, "POST")
    \/ \E o \in {0, 1} : StartOrder(p, 1, o, "POST")

Step(p) ==
    \/ AddResolve(p) \/ AddGet(p) \/ AddLine(p) \/ AddSave(p) \/ AddRespond(p)
    \/ CartLoad(p) \/ CartAct(p)
    \/ OrderLoad(p) \/ OrderAct(p)

NextC == \E p \in Procs : Start(p) \/ Step(p)

SpecC == Init /\ [][NextC]_vars

(* ------------------------------ claims -------------------------------- *)
RECURSIVE SumLines(_, _, _)
\* Sum over the first k Order_Item rows of order o of Quantity x unit price.
SumLines(rows, o, k) ==
    IF k = 0 THEN 0
    ELSE SumLines(rows, o, k - 1)
         + (IF rows[k].Order_ID = o
            THEN rows[k].Quantity * Menu_Item[rows[k].Item_ID] ELSE 0)

RECURSIVE SumQuantity(_, _, _, _)
\* Sum over the first k Order_Item rows of (o, i) of Quantity.
SumQuantity(rows, o, i, k) ==
    IF k = 0 THEN 0
    ELSE SumQuantity(rows, o, i, k - 1)
         + (IF rows[k].Order_ID = o /\ rows[k].Item_ID = i
            THEN rows[k].Quantity ELSE 0)

LineQuantity(rows, o, i) == SumQuantity(rows, o, i, Len(rows))

\* C1: after every add-item call the order's stored Total_Price equals the
\* sum over its Order_Item rows of Quantity x the item's unit price.
C1_TotalIsSumOfLines ==
    \A o \in 1..Len(Order) :
        Order[o].Total_Price = SumLines(Order_Item, o, Len(Order_Item))

\* C2: an order holds exactly one Order_Item row for each item that was added
\* to it and none for any other, and the row's Quantity is the sum of the
\* quantities posted for that item.
C2_OneRowPerItem ==
    /\ \A j, k \in 1..Len(Order_Item) :
           (/\ Order_Item[j].Order_ID = Order_Item[k].Order_ID
            /\ Order_Item[j].Item_ID = Order_Item[k].Item_ID) => j = k
    /\ {<<Order_Item[k].Order_ID, Order_Item[k].Item_ID>> :
            k \in 1..Len(Order_Item)} = DOMAIN requested
    /\ \A k \in 1..Len(Order_Item) :
           Order_Item[k].Quantity =
               requested[<<Order_Item[k].Order_ID, Order_Item[k].Item_ID>>]

\* Two posts of one item have merged into a single row of quantity 2.
C2_Witness ==
    /\ adds = 2
    /\ Len(Order_Item) = 1
    /\ Order_Item[1].Quantity = 2

\* C3: every order whose Completed_Status is true has Customer_Submitted true.
C3_CompletedImpliesSubmitted ==
    \A o \in 1..Len(Order) :
        Order[o].Completed_Status => Order[o].Customer_Submitted

\* C4: an add-item call that resolves an order already SUBMITTED or COMPLETED
\* leaves the Order_Item rows and every order's Total_Price as they were.
C4_NoAddAfterSubmit ==
    [][(/\ last'.op = "add_order_item"
        /\ last'.pre \in {"SUBMITTED", "COMPLETED"})
       => (/\ Order_Item' = Order_Item
           /\ Len(Order') = Len(Order)
           /\ \A o \in 1..Len(Order) :
                  Order'[o].Total_Price = Order[o].Total_Price)]_vars

\* C5: a view_order POST on an order that is OPEN or already COMPLETED ends
\* with InvalidTransition and leaves the Order table as it was.
C5_CompleteOnlySubmitted ==
    [][(/\ last'.op = "view_order"
        /\ last'.method = "POST"
        /\ last'.pre \in {"OPEN", "COMPLETED"})
       => (/\ last'.outcome = "InvalidTransition"
           /\ Order' = Order)]_vars

\* C6: once an order's Customer_Submitted is stored true it is never stored
\* false again, and likewise its Completed_Status.
C6_NoReversal ==
    [][\A o \in 1..Len(Order) :
        /\ Order[o].Customer_Submitted => Order'[o].Customer_Submitted
        /\ Order[o].Completed_Status => Order'[o].Completed_Status]_vars

\* C7: a view_cart POST on an order already SUBMITTED or COMPLETED reports no
\* error and leaves the Order and Order_Item tables as they were.
C7_SubmitIdempotent ==
    [][(/\ last'.op = "view_cart"
        /\ last'.method = "POST"
        /\ last'.pre \in {"SUBMITTED", "COMPLETED"})
       => (/\ last'.outcome = "redirect"
           /\ Order' = Order
           /\ Order_Item' = Order_Item)]_vars

\* C8: view_cart by a session with no bound order ends with NoActiveOrder.
C8_NoActiveOrder ==
    (last.op = "view_cart" /\ last.pre = "NONE")
        => last.outcome = "NoActiveOrder"

\* The quantity posted so far for <<o, i>>: 0 when none was.
RequestedFor(req, o, i) == IF <<o, i>> \in DOMAIN req THEN req[<<o, i>>] ELSE 0

\* C9: an add-item request by a session that holds an order creates no Order
\* row, leaves every session's order id and every order's table and restaurant
\* as they were, whatever table and menu its URL names; and when it is applied
\* it is applied to the session's order: that order's quantity of the item
\* rises by the posted amount and no other line changes.
C9_BindingWins ==
    [][(/\ last'.op = "add_order_item"
        /\ session[last'.who] # 0)
       => (/\ Len(Order') = Len(Order)
           /\ session' = session
           /\ \A o \in 1..Len(Order) :
                  /\ Order'[o].Table_ID = Order[o].Table_ID
                  /\ Order'[o].Restaurant_ID = Order[o].Restaurant_ID
           /\ last'.outcome = "redirect"
              => /\ last'.order = session[last'.who]
                 /\ adds' = adds + 1
                 /\ \A o \in 1..Len(Order), i \in DOMAIN Menu_Item :
                        /\ LineQuantity(Order_Item', o, i)
                               - LineQuantity(Order_Item, o, i)
                           = RequestedFor(requested', o, i)
                               - RequestedFor(requested, o, i)
                        /\ o # session[last'.who]
                           => RequestedFor(requested', o, i)
                                  = RequestedFor(requested, o, i))]_vars

\* Session 1, holding an order, has posted an item through the URL of another
\* table or another restaurant's menu, and the post was applied.
C9_Witness ==
    /\ last.op = "add_order_item"
    /\ last.method = "POST"
    /\ last.pre # "NONE"
    /\ last.foreign
    /\ last.outcome = "redirect"
    /\ last.order = session[last.who]

\* C10: at most one order that is not yet submitted exists for each pair of a
\* table and the session whose request created the order.
C10_OneOpenOrderPerSession ==
    \A s \in Sessions, t \in DOMAIN Table :
        Cardinality({o \in 1..Len(Order) :
                        /\ creator[o] = s
                        /\ Order[o].Table_ID = t
                        /\ ~Order[o].Customer_Submitted}) <= 1

\* C11: for two add-item requests on the same order that interleave, no second
\* Order_Item row of an (order, item) pair appears, neither request fails, the
\* order.save() of each raises the stored Total_Price by that request's own
\* increment, and once both have ended every line's Quantity is the sum of
\* the quantities posted for it, as when one request runs after the other.
C11_AtomicMerge ==
    [][/\ \A j, k \in 1..Len(Order_Item') :
              (/\ Order_Item'[j].Order_ID = Order_Item'[k].Order_ID
               /\ Order_Item'[j].Item_ID = Order_Item'[k].Item_ID) => j = k
       /\ last'.op = "add_order_item" => last'.outcome # "IntegrityError"
       /\ \A p \in Procs :
              (pc[p] = "add_save" /\ pc'[p] = "add_respond")
              => Order'[loc[p].order_id].Total_Price
                   = Order[loc[p].order_id].Total_Price
                     + (IF loc[p].existed # 0
                        THEN MergeIncrement(loc[p].quantity, loc[p].post.val,
                                            Menu_Item[loc[p].url[3]])
                        ELSE CreateIncrement(loc[p].post.val,
                                             Menu_Item[loc[p].url[3]]))
       /\ pc' = Idle
          => \A o \in 1..Len(Order'), i \in DOMAIN Menu_Item :
                 LineQuantity(Order_Item', o, i)
                     = RequestedFor(requested', o, i)]_vars

\* C12: a view_order POST that read its order as SUBMITTED completes it and
\* reports success only if the stored order is still SUBMITTED when it acts;
\* otherwise (another completion got there first) it is rejected and stores
\* nothing.  So of two concurrent completions of an order one succeeds.
C12_CompletionCompareAndSet ==
    [][\A p \in Procs :
          (/\ pc[p] = "order_act" /\ pc'[p] = "idle"
           /\ loc[p].method = "POST"
           /\ loc[p].pre = "SUBMITTED")
          => IF StateOf(Order[loc[p].order_id]) = "SUBMITTED"
             THEN /\ last'.outcome = "redirect"
                  /\ StateOf(Order'[loc[p].order_id]) = "COMPLETED"
             ELSE /\ last'.outcome # "redirect"
                  /\ Order' = Order]_vars

\* C13: an add-item POST whose Quantity is zero or negative stores nothing, so
\* every Order_Item row has Quantity >= 1 and no (order, item) pair is on
\* record as added with a sum of posted quantities below 1.
C13_QuantityPositive ==
    /\ \A k \in 1..Len(Order_Item) : Order_Item[k].Quantity >= 1
    /\ \A pair \in DOMAIN requested : requested[pair] >= 1

\* The orders of the restaurants `owner` owns.
OwnedOrders(owner) ==
    {o \in 1..Len(Order) : Order[o].Restaurant_ID \in Owner[owner]}

\* C14: for every owner the list view_order computes holds no OPEN order, no
\* COMPLETED order and no order of a restaurant the owner does not own, and
\* misses no SUBMITTED order of the owner's restaurants; and a view_order
\* request that found its list empty ran when the owner had no such order.
C14_PendingExact ==
    /\ \A owner \in DOMAIN Owner :
           /\ \A o \in PendingOrders(Order, owner) :
                  /\ StateOf(Order[o]) # "OPEN"
                  /\ StateOf(Order[o]) # "COMPLETED"
                  /\ o \in OwnedOrders(owner)
           /\ \A o \in OwnedOrders(owner) :
                  (Order[o].Customer_Submitted /\ ~Order[o].Completed_Status)
                  => o \in PendingOrders(Order, owner)
    /\ (/\ last.op = "view_order" /\ last.order = 0
        /\ last.outcome \in {"render", "AttributeError"})
       => ~\E o \in OwnedOrders(last.who) : StateOf(Order[o]) = "SUBMITTED"

\* An owner's console has just listed the owner's SUBMITTED order while an
\* order of a restaurant the owner does not own is SUBMITTED too.
C14_Witness ==
    /\ last.op = "view_order"
    /\ last.outcome = "render"
    /\ last.order \in OwnedOrders(last.who)
    /\ StateOf(Order[last.order]) = "SUBMITTED"
    /\ \E o \in 1..Len(Order) :
           /\ o \notin OwnedOrders(last.who)
           /\ StateOf(Order[o]) = "SUBMITTED"

\* C15: a view_cart POST that submits the session's order leaves the session
\* with no order id, so that the session's next add-item creates a new order.
C15_BindingClearedOnSubmit ==
    [][(/\ last'.op = "view_cart"
        /\ last'.method = "POST"
        /\ last'.outcome = "redirect")
       => session'[last'.who] = 0]_vars

\* C16: a view_order request by an owner, whatever order id its URL carries,
\* leaves every order of a restaurant the owner does not own as it was.
C16_OwnerAuthorization ==
    [][last'.op = "view_order"
       => \A o \in 1..Len(Order) :
              o \notin OwnedOrders(last'.who) => Order'[o] = Order[o]]_vars

\* The URLs session 1 requests that name a row that does not exist.
MissingUrls ==
    Urls \ ((DOMAIN Table) \X (DOMAIN Menu) \X (DOMAIN Menu_Item))

\* Session 1's add-item request cannot end otherwise than refused with
\* DoesNotExist and with the Order and Order_Item tables and every session's
\* order id left as they were.
Refused(url, method, post) ==
    ~ENABLED (/\ add_order_item(1, url[1], url[2], url[3], method, post)
              /\ ~(/\ last'.outcome = "DoesNotExist"
                   /\ Order' = Order
                   /\ Order_Item' = Order_Item
                   /\ session' = session))

\* C17 as stated: in every state, an add-item request whose URL names an
\* item, a menu or a table that does not exist fails with DoesNotExist and
\* has no effect.
C17_AnyMissingReference ==
    \A url \in MissingUrls, method \in Methods :
        \A post \in Bodies(method) : Refused(url, method, post)

\* C17: in every state, an add-item request whose URL names an item or a menu
\* that does not exist, or, when the session holds no order, a table that
\* does not exist, is served, fails with DoesNotExist and has no effect.
C17_NotFoundNoEffect ==
    \A url \in MissingUrls, method \in Methods :
        \A post \in Bodies(method) :
            (url[1] \notin DOMAIN Table => session[1] = 0)
            => /\ ENABLED add_order_item(1, url[1], url[2], url[3], method, post)
               /\ Refused(url, method, post)

\* A session with no order has just been refused for a missing row while
\* another session's order is on record.
C17_Witness ==
    /\ last.op = "add_order_item"
    /\ last.outcome = "DoesNotExist"
    /\ session[last.who] = 0
    /\ Len(Order) > 0

\* C18: every order whose table exists refers to the restaurant that the
\* table belongs to.
C18_RestaurantOfTable ==
    \A o \in 1..Len(Order) :
        Order[o].Table_ID \in DOMAIN Table
        => Order[o].Restaurant_ID = Table[Order[o].Table_ID]

\* C19: an add-item request that adds no line (it ends by rendering the form:
\* a GET, or a POST whose Quantity is not valid) creates no Order row and
\* leaves every session's order id as it was; and every order that exists has
\* at least one Order_Item row.
C19_LazyOrderCreation ==
    [][/\ (last'.op = "add_order_item" /\ last'.outcome = "render")
          => (Len(Order') = Len(Order) /\ session' = session)
       /\ \A o \in 1..Len(Order') : OrderRows(Order_Item', o) # {}]_vars

====
